---- MODULE Spec2Model ----
(***************************************************************************)
(* Model of the generic collection library in package functional:          *)
(* the error-propagating family (MapErr, FilterErr, ReduceErr), the        *)
(* transform family (Map, Filter, Reduce) and the set-algebra family       *)
(* (Intersection, Union, Difference, Unique).                              *)
(*                                                                         *)
(* A Go slice is a record [isNil, elems]: the nil slice and the empty      *)
(* non-nil slice are different values with the same (empty) elements.      *)
(* Indices are 1-based here; index j of the model is index j-1 in Go.      *)
(***************************************************************************)
EXTENDS Integers, Sequences, FiniteSets, TLC

\* Bounds of the model.
MaxLen == 3
MaxElem == 3

Elem == 1..MaxElem

\* Values a mapper can produce (the type U of MapErr and Map).
UVal == {10, 20}

\* The nil error and the non-nil error values a callback can return.
Nil == "nil"
Errors == {"errA", "errB"}

NilSlice == [isNil |-> TRUE, elems |-> <<>>]
EmptySlice == [isNil |-> FALSE, elems |-> <<>>]

MkSlice(seq) == [isNil |-> FALSE, elems |-> seq]

SeqsUpTo(S, n) == UNION {[1..k -> S] : k \in 0..n}

\* Every input slice a caller can pass: nil, empty, or up to MaxLen elements.
Slices == {NilSlice} \cup {MkSlice(q) : q \in SeqsUpTo(Elem, MaxLen)}

len(s) == Len(s.elems)

\* append(s, v): the result of appending is never nil.
SliceAppend(s, v) == [isNil |-> FALSE, elems |-> Append(s.elems, v)]

\* The key set of the map built by `for _, v := range s { m[v] = struct{}{} }`.
KeySet(s) == {s.elems[i] : i \in 1..Len(s.elems)}

\* `for k := range m { result = append(result, k) }` over a Go map: the
\* iteration order of a map is unspecified, so every order of the keys is a
\* possible outcome.
RangeOrders(S) ==
  {p \in [1..Cardinality(S) -> S] : \A x \in S : \E i \in 1..Cardinality(S) : p[i] = x}

\* Callbacks. A mapper and a predicate are given by their table of results
\* on success; a reducer by its kind. Whether a call fails, and which junk
\* value accompanies the error, is chosen at each call.
Mappers == [Elem -> UVal]
Predicates == [Elem -> BOOLEAN]
Reducers == {"sum", "shift"}
Initials == {0, 1}
JunkAcc == {0, 99}

reducer(kind, acc, element) ==
  IF kind = "sum" THEN acc + element ELSE 2 * acc + element

VARIABLES
  pc,          \* "idle", "loop" (inside a loop), "done" or "panic"
  fn,          \* the function that was called
  input,       \* first (or only) slice argument
  input2,      \* second slice argument of the set operations
  mapFunc,     \* callback of MapErr
  predicate,   \* callback of FilterErr
  redKind,     \* callback of ReduceErr
  initial,     \* initial accumulator of ReduceErr
  idx,         \* position of the range loop
  result,      \* the result slice (returned when pc = "done")
  accumulator, \* the accumulator of ReduceErr (returned when pc = "done")
  err,         \* the returned error
  calls,       \* log of callback invocations: [index, element, err] and,
               \* in the error variants, ret: the value the callback returned
  size,        \* chunk size argument of Chunk
  chunks,      \* a [][]T: the result of Chunk, the argument of Flatten
  classifier,  \* callback of GroupBy
  inputMap,    \* map argument of Keys, Values and MapToSlice
  groups,      \* the map returned by GroupBy
  value,       \* value argument of Contains; the value a caller writes
  found,       \* the bool returned by Any, All, Find and Contains
  ptr,         \* the *T returned by Find: 0 is nil, i is &input[i-1]
  procs,       \* the local variables of each concurrent caller
  passed       \* the argument containers as they were when the call was made

\* The variables of the grouping and reshaping family.
extVars == <<size, chunks, classifier, inputMap, groups>>

\* The variables of the search family.
searchVars == <<value, found, ptr>>

vars == <<pc, fn, input, input2, mapFunc, predicate, redKind, initial, idx,
          result, accumulator, err, calls, size, chunks, classifier, inputMap,
          groups, value, found, ptr, procs, passed>>

\* A Go map is a record [isNil, m]: m is the function from its keys to
\* their values; the nil map has no keys.
NilMap == [isNil |-> TRUE, m |-> <<>>]
EmptyMap == [isNil |-> FALSE, m |-> <<>>]

MkMap(f) == [isNil |-> FALSE, m |-> f]

\* The callers of the concurrent specification.
NumCallers == 2
Callers == 1..NumCallers

\* The local variables of a caller that has not called anything yet.
IdleLocal ==
  [fn |-> "none", pc |-> "idle", idx |-> 0, res |-> NilSlice, acc |-> 0,
   seen |-> {}, ov |-> FALSE]

DefaultMapper == [x \in Elem |-> 10]
DefaultPredicate == [x \in Elem |-> FALSE]

Init ==
  /\ pc = "idle"
  /\ fn = "none"
  /\ input = NilSlice
  /\ input2 = NilSlice
  /\ mapFunc = DefaultMapper
  /\ predicate = DefaultPredicate
  /\ redKind = "sum"
  /\ initial = 0
  /\ idx = 0
  /\ result = NilSlice
  /\ accumulator = 0
  /\ err = Nil
  /\ calls = <<>>
  /\ size = 0
  /\ chunks = NilSlice
  /\ classifier = DefaultMapper
  /\ inputMap = NilMap
  /\ groups = NilMap
  /\ value = 1
  /\ found = FALSE
  /\ ptr = 0
  /\ procs = [p \in Callers |-> IdleLocal]
  /\ passed = <<>>

(***************************************************************************)
(* Transform family.                                                       *)
(***************************************************************************)

Map(in, f) ==
  IF in.isNil THEN NilSlice
  ELSE MkSlice([i \in 1..len(in) |-> f[in.elems[i]]])

\* Mutant: the predicate is negated.
RECURSIVE FilterLoopNegated(_, _, _, _)
FilterLoopNegated(in, p, i, res) ==
  IF i > len(in) THEN res
  ELSE FilterLoopNegated(in, p, i + 1,
                  IF ~p[in.elems[i]] THEN SliceAppend(res, in.elems[i]) ELSE res)

RECURSIVE FilterLoop(_, _, _, _)
FilterLoop(in, p, i, res) ==
  IF i > len(in) THEN res
  ELSE FilterLoop(in, p, i + 1,
                  IF p[in.elems[i]] THEN SliceAppend(res, in.elems[i]) ELSE res)

Filter(in, p) ==
  IF len(in) = 0 THEN EmptySlice ELSE FilterLoop(in, p, 1, EmptySlice)

RECURSIVE ReduceLoop(_, _, _, _)
ReduceLoop(in, kind, i, acc) ==
  IF i > len(in) THEN acc
  ELSE ReduceLoop(in, kind, i + 1, reducer(kind, acc, in.elems[i]))

Reduce(in, init, kind) ==
  IF len(in) = 0 THEN init ELSE ReduceLoop(in, kind, 1, init)

(***************************************************************************)
(* Error-propagating family. One action per call and one per loop           *)
(* iteration; every callback invocation is appended to calls.              *)
(***************************************************************************)

\* Mutant: nil instead of []U{} for nil or empty input.
ErrVariantEmptyResultNil == NilSlice

\* What MapErr and FilterErr return for nil or empty input.
ErrVariantEmptyResult == EmptySlice

\* Mutant: the partial result is discarded on error.
MapErrIterDiscard(res, mappedValue, e) ==
  IF e # Nil
    THEN [ret |-> TRUE, result |-> NilSlice, err |-> e]
    ELSE [ret |-> FALSE, result |-> SliceAppend(res, mappedValue), err |-> Nil]

\* Mutant: the loop goes on after an error (skip the failing element).
MapErrIterContinue(res, mappedValue, e) ==
  IF e # Nil
    THEN [ret |-> FALSE, result |-> res, err |-> e]
    ELSE [ret |-> FALSE, result |-> SliceAppend(res, mappedValue), err |-> Nil]

\* Mutant: the value returned with an error is appended before returning.
MapErrIterAppendFailing(res, mappedValue, e) ==
  IF e # Nil
    THEN [ret |-> TRUE, result |-> SliceAppend(res, mappedValue), err |-> e]
    ELSE [ret |-> FALSE, result |-> SliceAppend(res, mappedValue), err |-> Nil]

\* One iteration of MapErr's loop after mapFunc returned (mappedValue, e).
MapErrIter(res, mappedValue, e) ==
  IF e # Nil
    THEN [ret |-> TRUE, result |-> res, err |-> e]
    ELSE [ret |-> FALSE, result |-> SliceAppend(res, mappedValue), err |-> Nil]

\* Mutant: the include flag is honoured before the error is looked at.
FilterErrIterKeepFailing(res, item, include, e) ==
  IF e # Nil
    THEN [ret |-> TRUE,
          result |-> IF include THEN SliceAppend(res, item) ELSE res,
          err |-> e]
    ELSE [ret |-> FALSE,
          result |-> IF include THEN SliceAppend(res, item) ELSE res,
          err |-> Nil]

\* One iteration of FilterErr's loop after predicate returned (include, e).
FilterErrIter(res, item, include, e) ==
  IF e # Nil
    THEN [ret |-> TRUE, result |-> res, err |-> e]
    ELSE [ret |-> FALSE,
          result |-> IF include THEN SliceAppend(res, item) ELSE res,
          err |-> Nil]

\* Mutant: the accumulator is updated before the error is looked at.
ReduceErrIterUpdateFirst(acc, nextAccumulator, e) ==
  IF e # Nil
    THEN [ret |-> TRUE, accumulator |-> nextAccumulator, err |-> e]
    ELSE [ret |-> FALSE, accumulator |-> nextAccumulator, err |-> Nil]

\* One iteration of ReduceErr's loop after reducer returned (nextAccumulator, e).
ReduceErrIter(acc, nextAccumulator, e) ==
  IF e # Nil
    THEN [ret |-> TRUE, accumulator |-> acc, err |-> e]
    ELSE [ret |-> FALSE, accumulator |-> nextAccumulator, err |-> Nil]

CallMapErr ==
  /\ pc = "idle"
  /\ \E in \in Slices, f \in Mappers :
       /\ fn' = "MapErr"
       /\ input' = in
       /\ passed' = <<in>>
       /\ mapFunc' = f
       /\ IF len(in) = 0
            THEN /\ result' = ErrVariantEmptyResult
                 /\ pc' = "done"
                 /\ idx' = 0
            ELSE /\ result' = EmptySlice
                 /\ pc' = "loop"
                 /\ idx' = 1
  /\ err' = Nil
  /\ UNCHANGED <<input2, predicate, redKind, initial, accumulator, calls>>
  /\ UNCHANGED <<extVars, searchVars>>
  /\ UNCHANGED procs

MapErrStep ==
  /\ pc = "loop"
  /\ fn = "MapErr"
  /\ LET item == input.elems[idx] IN
     \E e \in Errors \cup {Nil} :
     \E mappedValue \in (IF e = Nil THEN {mapFunc[item]} ELSE UVal) :
       LET it == MapErrIter(result, mappedValue, e) IN
         /\ calls' = Append(calls, [index |-> idx, element |-> item, err |-> e,
                                    ret |-> mappedValue])
         /\ result' = it.result
         /\ err' = it.err
         /\ IF it.ret \/ idx = len(input)
              THEN pc' = "done" /\ idx' = idx
              ELSE pc' = "loop" /\ idx' = idx + 1
  /\ UNCHANGED <<fn, input, input2, mapFunc, predicate, redKind, initial, accumulator>>
  /\ UNCHANGED <<extVars, searchVars, passed>>
  /\ UNCHANGED procs

CallFilterErr ==
  /\ pc = "idle"
  /\ \E in \in Slices, p \in Predicates :
       /\ fn' = "FilterErr"
       /\ input' = in
       /\ passed' = <<in>>
       /\ predicate' = p
       /\ IF len(in) = 0
            THEN /\ result' = ErrVariantEmptyResult
                 /\ pc' = "done"
                 /\ idx' = 0
            ELSE /\ result' = EmptySlice
                 /\ pc' = "loop"
                 /\ idx' = 1
  /\ err' = Nil
  /\ UNCHANGED <<input2, mapFunc, redKind, initial, accumulator, calls>>
  /\ UNCHANGED <<extVars, searchVars>>
  /\ UNCHANGED procs

FilterErrStep ==
  /\ pc = "loop"
  /\ fn = "FilterErr"
  /\ LET item == input.elems[idx] IN
     \E e \in Errors \cup {Nil} :
     \E include \in (IF e = Nil THEN {predicate[item]} ELSE BOOLEAN) :
       LET it == FilterErrIter(result, item, include, e) IN
         /\ calls' = Append(calls, [index |-> idx, element |-> item, err |-> e,
                                    ret |-> include])
         /\ result' = it.result
         /\ err' = it.err
         /\ IF it.ret \/ idx = len(input)
              THEN pc' = "done" /\ idx' = idx
              ELSE pc' = "loop" /\ idx' = idx + 1
  /\ UNCHANGED <<fn, input, input2, mapFunc, predicate, redKind, initial, accumulator>>
  /\ UNCHANGED <<extVars, searchVars, passed>>
  /\ UNCHANGED procs

CallReduceErr ==
  /\ pc = "idle"
  /\ \E in \in Slices, init \in Initials, kind \in Reducers :
       /\ fn' = "ReduceErr"
       /\ input' = in
       /\ passed' = <<in>>
       /\ initial' = init
       /\ redKind' = kind
       /\ accumulator' = init
       /\ IF len(in) = 0
            THEN pc' = "done" /\ idx' = 0
            ELSE pc' = "loop" /\ idx' = 1
  /\ err' = Nil
  /\ UNCHANGED <<input2, mapFunc, predicate, result, calls>>
  /\ UNCHANGED <<extVars, searchVars>>
  /\ UNCHANGED procs

ReduceErrStep ==
  /\ pc = "loop"
  /\ fn = "ReduceErr"
  /\ LET item == input.elems[idx] IN
     \E e \in Errors \cup {Nil} :
     \E nextAccumulator \in
          (IF e = Nil THEN {reducer(redKind, accumulator, item)} ELSE JunkAcc) :
       LET it == ReduceErrIter(accumulator, nextAccumulator, e) IN
         /\ calls' = Append(calls, [index |-> idx, element |-> item, err |-> e,
                                    ret |-> nextAccumulator])
         /\ accumulator' = it.accumulator
         /\ err' = it.err
         /\ IF it.ret \/ idx = len(input)
              THEN pc' = "done" /\ idx' = idx
              ELSE pc' = "loop" /\ idx' = idx + 1
  /\ UNCHANGED <<fn, input, input2, mapFunc, predicate, redKind, initial, result>>
  /\ UNCHANGED <<extVars, searchVars, passed>>
  /\ UNCHANGED procs

(***************************************************************************)
(* Set-algebra family (set_ops.go). Intersection, Union and Difference      *)
(* collect their result in a Go map and read it back with range: the       *)
(* operator gives the set of slices a call can return.                     *)
(***************************************************************************)

\* Mutant: an element is appended without being recorded in seen.
RECURSIVE UniqueLoopNoSeen(_, _, _, _)
UniqueLoopNoSeen(slice, i, seen, res) ==
  IF i > len(slice) THEN res
  ELSE LET item == slice.elems[i] IN
       IF item \notin seen
         THEN UniqueLoopNoSeen(slice, i + 1, seen, SliceAppend(res, item))
         ELSE UniqueLoopNoSeen(slice, i + 1, seen, res)

\* Mutant: a duplicate removes its value from seen, so the value is appended
\* again the next time it appears.
RECURSIVE UniqueLoopForgetOnDup(_, _, _, _)
UniqueLoopForgetOnDup(slice, i, seen, res) ==
  IF i > len(slice) THEN res
  ELSE LET item == slice.elems[i] IN
       IF item \notin seen
         THEN UniqueLoopForgetOnDup(slice, i + 1, seen \cup {item},
                                    SliceAppend(res, item))
         ELSE UniqueLoopForgetOnDup(slice, i + 1, seen \ {item}, res)

RECURSIVE UniqueLoop(_, _, _, _)
UniqueLoop(slice, i, seen, res) ==
  IF i > len(slice) THEN res
  ELSE LET item == slice.elems[i] IN
       IF item \notin seen
         THEN UniqueLoop(slice, i + 1, seen \cup {item}, SliceAppend(res, item))
         ELSE UniqueLoop(slice, i + 1, seen, res)

Unique(slice) ==
  IF len(slice) = 0 THEN EmptySlice ELSE UniqueLoop(slice, 1, {}, EmptySlice)

\* Mutant: every value of the first argument is put in intersectionMap.
intersectionMapFirstOnly(s1, s2) == KeySet(s1)

\* The keys of intersectionMap after the two loops of Intersection.
intersectionMap(s1, s2) ==
  LET mapSlice == IF len(s1) < len(s2) THEN s1 ELSE s2
      iterateSlice == IF len(s1) < len(s2) THEN s2 ELSE s1
      set == KeySet(mapSlice)
  IN {item \in KeySet(iterateSlice) : item \in set}

Intersection(s1, s2) ==
  IF len(s1) = 0 \/ len(s2) = 0 THEN {EmptySlice}
  ELSE IF Cardinality(intersectionMap(s1, s2)) = 0 THEN {EmptySlice}
  ELSE {MkSlice(p) : p \in RangeOrders(intersectionMap(s1, s2))}

\* Mutant: the second loop of Union is missing.
unionSetFirstOnly(s1, s2) == KeySet(s1)

\* The keys of unionSet after the two loops of Union.
unionSet(s1, s2) == KeySet(s1) \cup KeySet(s2)

Union(s1, s2) ==
  IF Cardinality(unionSet(s1, s2)) = 0 THEN {EmptySlice}
  ELSE {MkSlice(p) : p \in RangeOrders(unionSet(s1, s2))}

\* Mutant: the membership test of Difference is inverted.
resultSetInverted(s1, s2) ==
  LET setB == KeySet(s2) IN {item \in KeySet(s1) : item \in setB}

\* The keys of resultSet after the loop of Difference.
resultSet(s1, s2) ==
  LET setB == KeySet(s2) IN {item \in KeySet(s1) : item \notin setB}

Difference(s1, s2) ==
  IF len(s1) = 0 THEN {EmptySlice}
  ELSE IF Cardinality(resultSet(s1, s2)) = 0 THEN {EmptySlice}
  ELSE {MkSlice(p) : p \in RangeOrders(resultSet(s1, s2))}

\* The second arguments of the two-argument set operations: every slice but
\* the longest ones.
ShorterSlices == {s \in Slices : len(s) < MaxLen}

\* A call of a one-argument or two-argument set operation: it runs to its
\* return in one step.
SetCallFrame(name, s1, s2) ==
  /\ pc' = "done"
  /\ fn' = name
  /\ input' = s1
  /\ input2' = s2
  /\ passed' = <<s1, s2>>
  /\ UNCHANGED <<mapFunc, predicate, redKind, initial, idx, accumulator, err, calls>>
  /\ UNCHANGED <<extVars, searchVars>>

CallUnique ==
  /\ pc = "idle"
  /\ \E s \in Slices :
       /\ SetCallFrame("Unique", s, NilSlice)
       /\ result' = Unique(s)
  /\ UNCHANGED procs

CallIntersection ==
  /\ pc = "idle"
  /\ \E s1 \in Slices, s2 \in ShorterSlices :
       /\ SetCallFrame("Intersection", s1, s2)
       /\ result' \in Intersection(s1, s2)
  /\ UNCHANGED procs

CallUnion ==
  /\ pc = "idle"
  /\ \E s1 \in Slices, s2 \in ShorterSlices :
       /\ SetCallFrame("Union", s1, s2)
       /\ result' \in Union(s1, s2)
  /\ UNCHANGED procs

CallDifference ==
  /\ pc = "idle"
  /\ \E s1 \in Slices, s2 \in ShorterSlices :
       /\ SetCallFrame("Difference", s1, s2)
       /\ result' \in Difference(s1, s2)
  /\ UNCHANGED procs

(***************************************************************************)
(* Calls of the transform family. Map and Reduce are followed one loop     *)
(* iteration at a time, so that the invocations of the callback are        *)
(* logged; Filter runs to its return in one step.                          *)
(***************************************************************************)

cbVars == <<mapFunc, predicate, redKind, initial>>

\* The zero value of U that make([]U, n) fills the new slice with.
ZeroU == 0

\* Mutant: the mapped value is appended to the preallocated slice.
MapIterAppend(res, i, v) == SliceAppend(res, v)

\* result[i] = mapFunc(v)
MapIter(res, i, v) == [res EXCEPT !.elems[i] = v]

CallMap ==
  /\ pc = "idle"
  /\ \E in \in Slices, f \in Mappers :
       /\ fn' = "Map"
       /\ input' = in
       /\ mapFunc' = f
       /\ passed' = <<in>>
       /\ IF in.isNil
            THEN /\ result' = NilSlice
                 /\ pc' = "done"
                 /\ idx' = 0
            ELSE /\ result' = MkSlice([i \in 1..len(in) |-> ZeroU])
                 /\ IF len(in) = 0
                      THEN pc' = "done" /\ idx' = 0
                      ELSE pc' = "loop" /\ idx' = 1
  /\ UNCHANGED <<input2, predicate, redKind, initial, accumulator, err, calls>>
  /\ UNCHANGED <<extVars, searchVars>>
  /\ UNCHANGED procs

MapStep ==
  /\ pc = "loop"
  /\ fn = "Map"
  /\ LET item == input.elems[idx] IN
       /\ calls' = Append(calls, [index |-> idx, element |-> item, err |-> Nil])
       /\ result' = MapIter(result, idx, mapFunc[item])
  /\ IF idx = len(input)
       THEN pc' = "done" /\ idx' = idx
       ELSE pc' = "loop" /\ idx' = idx + 1
  /\ UNCHANGED <<fn, input, input2, cbVars, accumulator, err, extVars, searchVars, passed>>
  /\ UNCHANGED procs

CallFilter ==
  /\ pc = "idle"
  /\ \E in \in Slices, p \in Predicates :
       /\ fn' = "Filter"
       /\ input' = in
       /\ predicate' = p
       /\ passed' = <<in>>
       /\ result' = Filter(in, p)
  /\ pc' = "done"
  /\ UNCHANGED <<input2, mapFunc, redKind, initial, idx, accumulator, err, calls>>
  /\ UNCHANGED <<extVars, searchVars>>
  /\ UNCHANGED procs

\* Mutant: every element is combined with initial, not with the accumulator.
ReduceIterFromInitial(kind, acc, item) == reducer(kind, initial, item)

\* accumulator = reducer(accumulator, item)
ReduceIter(kind, acc, item) == reducer(kind, acc, item)

CallReduce ==
  /\ pc = "idle"
  /\ \E in \in Slices, init \in Initials, kind \in Reducers :
       /\ fn' = "Reduce"
       /\ input' = in
       /\ initial' = init
       /\ redKind' = kind
       /\ passed' = <<in>>
       /\ accumulator' = init
       /\ IF len(in) = 0
            THEN pc' = "done" /\ idx' = 0
            ELSE pc' = "loop" /\ idx' = 1
  /\ UNCHANGED <<input2, mapFunc, predicate, result, err, calls>>
  /\ UNCHANGED <<extVars, searchVars>>
  /\ UNCHANGED procs

ReduceStep ==
  /\ pc = "loop"
  /\ fn = "Reduce"
  /\ LET item == input.elems[idx] IN
       /\ calls' = Append(calls, [index |-> idx, element |-> item, err |-> Nil])
       /\ accumulator' = ReduceIter(redKind, accumulator, item)
  /\ IF idx = len(input)
       THEN pc' = "done" /\ idx' = idx
       ELSE pc' = "loop" /\ idx' = idx + 1
  /\ UNCHANGED <<fn, input, input2, cbVars, result, err, extVars, searchVars, passed>>
  /\ UNCHANGED procs

(***************************************************************************)
(* Grouping and reshaping family: Chunk, Flatten, GroupBy, ReversedCopy,    *)
(* Reverse (in place), Keys, Values, MapToSlice.                           *)
(***************************************************************************)

\* Bound on the outer length of the [][]T arguments of Flatten.
MaxOuter == 2
MaxInner == 2

\* The sizes a caller passes to Chunk: negative, zero, and positive up to
\* one more than the longest input.
Sizes == (0 - 1)..(MaxLen + 1)

\* The inner slices of a [][]T: nil, empty, or up to MaxInner elements.
InnerSlices ==
  {NilSlice} \cup {MkSlice(q) : q \in SeqsUpTo({e \in Elem : e <= 2}, MaxInner)}

\* Every [][]T a caller can pass to Flatten; the inner slices may be nil.
NestedSlices ==
  {NilSlice} \cup {MkSlice(q) : q \in SeqsUpTo(InnerSlices, MaxOuter)}

\* Every map a caller can pass to Keys, Values and MapToSlice.
Maps == {NilMap} \cup {MkMap(f) : f \in UNION {[S -> UVal] : S \in SUBSET Elem}}

\* Mutant: a chunk is a copy of slice[i:end] in an array of its own.
MkViewCopy(slice, i, end) ==
  [isNil |-> FALSE, elems |-> SubSeq(slice.elems, i + 1, end),
   arr |-> "own", off |-> 0]

\* slice[i:end]: a slice header on the backing array of the input, from Go
\* index i to Go index end (exclusive).
MkView(slice, i, end) ==
  [isNil |-> FALSE, elems |-> SubSeq(slice.elems, i + 1, end),
   arr |-> "input", off |-> i]

\* What a slice header shows after the input's backing array became arr.
ReadView(c, arr) ==
  IF c.arr = "input"
    THEN [c EXCEPT !.elems = SubSeq(arr.elems, c.off + 1, c.off + Len(c.elems))]
    ELSE c

\* Mutant: the loop stops before a last chunk shorter than size.
RECURSIVE ChunkLoopDropTail(_, _, _, _)
ChunkLoopDropTail(slice, sz, i, res) ==
  IF i + sz > len(slice) THEN res
  ELSE ChunkLoopDropTail(slice, sz, i + sz,
         SliceAppend(res, MkView(slice, i, i + sz)))

\* The loop of Chunk; i is the Go index (from 0) of the chunk's first element.
RECURSIVE ChunkLoop(_, _, _, _)
ChunkLoop(slice, sz, i, res) ==
  IF i >= len(slice) THEN res
  ELSE LET end == IF i + sz > len(slice) THEN len(slice) ELSE i + sz IN
       ChunkLoop(slice, sz, i + sz, SliceAppend(res, MkView(slice, i, end)))

\* Mutant: a non-positive size gives an empty list of chunks, no panic.
ChunkLenient(slice, sz) ==
  IF sz <= 0 \/ len(slice) = 0 THEN [panic |-> FALSE, result |-> EmptySlice]
  ELSE [panic |-> FALSE, result |-> ChunkLoop(slice, sz, 0, EmptySlice)]

\* Chunk either panics or returns a list of chunks.
Chunk(slice, sz) ==
  IF sz <= 0 THEN [panic |-> TRUE, result |-> NilSlice]
  ELSE IF len(slice) = 0 THEN [panic |-> FALSE, result |-> EmptySlice]
  ELSE [panic |-> FALSE, result |-> ChunkLoop(slice, sz, 0, EmptySlice)]

RECURSIVE FlattenLoop(_, _, _)
FlattenLoop(in, i, res) ==
  IF i > len(in) THEN res
  ELSE FlattenLoop(in, i + 1, MkSlice(res.elems \o in.elems[i].elems))

Flatten(in) ==
  IF len(in) = 0 THEN EmptySlice ELSE FlattenLoop(in, 1, EmptySlice)

\* m[k] = v on a Go map.
MapPut(mp, k, v) ==
  MkMap([x \in (DOMAIN mp.m) \cup {k} |-> IF x = k THEN v ELSE mp.m[x]])

\* m[k] read from a Go map of slices: the nil slice when k is not a key.
MapGet(mp, k) == IF k \in DOMAIN mp.m THEN mp.m[k] ELSE NilSlice

\* Mutant: the group of a key is replaced, not appended to.
RECURSIVE GroupByLoopOverwrite(_, _, _, _)
GroupByLoopOverwrite(in, cls, i, res) ==
  IF i > len(in) THEN res
  ELSE LET item == in.elems[i]
           key == cls[item]
       IN GroupByLoopOverwrite(in, cls, i + 1,
                               MapPut(res, key, MkSlice(<<item>>)))

RECURSIVE GroupByLoop(_, _, _, _)
GroupByLoop(in, cls, i, res) ==
  IF i > len(in) THEN res
  ELSE LET item == in.elems[i]
           key == cls[item]
       IN GroupByLoop(in, cls, i + 1,
                      MapPut(res, key, SliceAppend(MapGet(res, key), item)))

GroupBy(in, cls) == GroupByLoop(in, cls, 1, EmptyMap)

ReversedCopy(slice) ==
  IF len(slice) = 0 THEN EmptySlice
  ELSE MkSlice([j \in 1..len(slice) |-> slice.elems[len(slice) + 1 - j]])

\* Mutant: the swap loop runs over the whole slice, not its first half.
RECURSIVE ReverseLoopFull(_, _)
ReverseLoopFull(slice, i) ==
  IF i >= len(slice) THEN slice
  ELSE LET j == len(slice) - 1 - i IN
       ReverseLoopFull([slice EXCEPT !.elems[i + 1] = slice.elems[j + 1],
                                     !.elems[j + 1] = slice.elems[i + 1]], i + 1)

\* The swap loop of Reverse; i is the Go index (from 0).
RECURSIVE ReverseLoop(_, _)
ReverseLoop(slice, i) ==
  IF i >= len(slice) \div 2 THEN slice
  ELSE LET j == len(slice) - 1 - i IN
       ReverseLoop([slice EXCEPT !.elems[i + 1] = slice.elems[j + 1],
                                 !.elems[j + 1] = slice.elems[i + 1]], i + 1)

\* The caller's slice after Reverse(slice) has returned.
Reverse(slice) == IF len(slice) < 2 THEN slice ELSE ReverseLoop(slice, 0)

\* Keys, Values and MapToSlice range over the map: each gives the set of
\* slices a call can return.
Keys(mp) ==
  IF mp.isNil THEN {EmptySlice}
  ELSE IF Cardinality(DOMAIN mp.m) = 0 THEN {EmptySlice}
  ELSE {MkSlice(p) : p \in RangeOrders(DOMAIN mp.m)}

Values(mp) ==
  IF mp.isNil THEN {EmptySlice}
  ELSE IF Cardinality(DOMAIN mp.m) = 0 THEN {EmptySlice}
  ELSE {MkSlice([i \in DOMAIN p |-> mp.m[p[i]]]) : p \in RangeOrders(DOMAIN mp.m)}

\* The callback the model passes to MapToSlice.
transformFunc(k, v) == k + v

MapToSlice(mp) ==
  IF mp.isNil THEN {EmptySlice}
  ELSE IF Cardinality(DOMAIN mp.m) = 0 THEN {EmptySlice}
  ELSE {MkSlice([i \in DOMAIN p |-> transformFunc(p[i], mp.m[p[i]])]) :
          p \in RangeOrders(DOMAIN mp.m)}

loopVars == <<idx, accumulator, err, calls>>

CallChunk ==
  /\ pc = "idle"
  /\ \E s \in Slices, sz \in Sizes :
       LET c == Chunk(s, sz) IN
         /\ fn' = "Chunk"
         /\ input' = s
         /\ size' = sz
         /\ passed' = <<s>>
         /\ IF c.panic
              THEN pc' = "panic" /\ chunks' = chunks
              ELSE pc' = "done" /\ chunks' = c.result
  /\ UNCHANGED <<input2, cbVars, loopVars, searchVars, result, classifier, inputMap, groups>>
  /\ UNCHANGED procs

\* The caller passes the chunks it got from Chunk on to Flatten.
FlattenChunks ==
  /\ pc = "done"
  /\ fn = "Chunk"
  /\ fn' = "FlattenChunks"
  /\ result' = Flatten(chunks)
  /\ UNCHANGED <<pc, input, input2, cbVars, loopVars, searchVars, extVars, passed>>
  /\ UNCHANGED procs

\* The caller assigns to an element of a chunk: chunks[j][i] = v.  A chunk
\* on the input's backing array writes the input, and every chunk on that
\* array shows the write.
ChunkWrite ==
  /\ pc = "done"
  /\ fn = "Chunk"
  /\ fn' = "ChunkWrite"
  /\ \E j \in 1..len(chunks), v \in Elem :
     \E i \in 1..len(chunks.elems[j]) :
       LET c == chunks.elems[j]
           newInput == IF c.arr = "input"
                         THEN [input EXCEPT !.elems[c.off + i] = v]
                         ELSE input
           written == [chunks EXCEPT !.elems[j].elems[i] = v]
       IN /\ input' = newInput
          /\ chunks' = [written EXCEPT !.elems =
                          [n \in DOMAIN written.elems |->
                             ReadView(written.elems[n], newInput)]]
  /\ UNCHANGED <<pc, input2, cbVars, loopVars, searchVars, result, size,
                 classifier, inputMap, groups, passed>>
  /\ UNCHANGED procs

CallFlatten ==
  /\ pc = "idle"
  /\ \E n \in NestedSlices :
       /\ chunks' = n
       /\ passed' = <<n>>
       /\ result' = Flatten(n)
  /\ pc' = "done"
  /\ fn' = "Flatten"
  /\ UNCHANGED <<input, input2, cbVars, loopVars, searchVars, size, classifier, inputMap, groups>>
  /\ UNCHANGED procs

CallGroupBy ==
  /\ pc = "idle"
  /\ \E s \in Slices, cls \in Mappers :
       /\ input' = s
       /\ classifier' = cls
       /\ passed' = <<s>>
       /\ groups' = GroupBy(s, cls)
  /\ pc' = "done"
  /\ fn' = "GroupBy"
  /\ UNCHANGED <<input2, cbVars, loopVars, searchVars, result, size, chunks, inputMap>>
  /\ UNCHANGED procs

\* Mutant: the input is reversed in place and returned.
CallReversedCopyInPlace ==
  /\ pc = "idle"
  /\ \E s \in Slices :
       /\ input' = Reverse(s)
       /\ passed' = <<s>>
       /\ result' = Reverse(s)
  /\ pc' = "done"
  /\ fn' = "ReversedCopy"
  /\ UNCHANGED <<input2, cbVars, loopVars, searchVars, extVars>>
  /\ UNCHANGED procs

CallReversedCopy ==
  /\ pc = "idle"
  /\ \E s \in Slices :
       /\ input' = s
       /\ passed' = <<s>>
       /\ result' = ReversedCopy(s)
  /\ pc' = "done"
  /\ fn' = "ReversedCopy"
  /\ UNCHANGED <<input2, cbVars, loopVars, searchVars, extVars>>
  /\ UNCHANGED procs

\* Reverse writes the caller's slice and returns nothing.
CallReverse ==
  /\ pc = "idle"
  /\ \E s \in Slices :
       /\ input' = Reverse(s)
       /\ passed' = <<s>>
  /\ pc' = "done"
  /\ fn' = "Reverse"
  /\ UNCHANGED <<input2, cbVars, loopVars, searchVars, result, extVars>>
  /\ UNCHANGED procs

MapCallFrame(name, mp) ==
  /\ pc' = "done"
  /\ fn' = name
  /\ inputMap' = mp
  /\ passed' = <<mp>>
  /\ UNCHANGED <<input, input2, cbVars, loopVars, searchVars, size, chunks, classifier, groups>>

CallKeys ==
  /\ pc = "idle"
  /\ \E mp \in Maps :
       /\ MapCallFrame("Keys", mp)
       /\ result' \in Keys(mp)
  /\ UNCHANGED procs

CallValues ==
  /\ pc = "idle"
  /\ \E mp \in Maps :
       /\ MapCallFrame("Values", mp)
       /\ result' \in Values(mp)
  /\ UNCHANGED procs

CallMapToSlice ==
  /\ pc = "idle"
  /\ \E mp \in Maps :
       /\ MapCallFrame("MapToSlice", mp)
       /\ result' \in MapToSlice(mp)
  /\ UNCHANGED procs

(***************************************************************************)
(* The search family: Any, All, Find and Contains.  Any, All and Find are  *)
(* modelled one predicate invocation at a time; every invocation is        *)
(* appended to calls.                                                      *)
(***************************************************************************)

\* The variables a search call leaves alone.
searchFrame == <<input2, mapFunc, redKind, initial, result, accumulator, err,
                 extVars>>

\* The entry of Any, All and Find: the arguments are bound, and a nil or
\* empty slice returns at once.
SearchCallFrame(name, in, p) ==
  /\ fn' = name
  /\ input' = in
  /\ predicate' = p
  /\ passed' = <<in>>
  /\ ptr' = 0
  /\ calls' = <<>>
  /\ IF len(in) = 0
       THEN pc' = "done" /\ idx' = 0
       ELSE pc' = "loop" /\ idx' = 1
  /\ UNCHANGED <<searchFrame, value>>

\* One iteration of a search loop: when stop holds the loop returns
\* onStop, at the end of the slice it returns onEnd.
SearchStep(name, stop, onStop, onEnd) ==
  /\ pc = "loop"
  /\ fn = name
  /\ calls' = Append(calls, [index |-> idx, element |-> input.elems[idx],
                             err |-> Nil])
  /\ IF stop
       THEN pc' = "done" /\ idx' = idx /\ found' = onStop
       ELSE IF idx = len(input)
              THEN pc' = "done" /\ idx' = idx /\ found' = onEnd
              ELSE pc' = "loop" /\ idx' = idx + 1 /\ found' = found
  /\ UNCHANGED <<fn, input, predicate, passed, searchFrame, value>>

CallAny ==
  /\ pc = "idle"
  /\ \E in \in Slices, p \in Predicates :
       /\ SearchCallFrame("Any", in, p)
       /\ found' = FALSE
  /\ UNCHANGED procs

\* Mutant: Any goes on to the end of the slice after a satisfying element.
AnyStepExhaustive ==
  /\ pc = "loop"
  /\ fn = "Any"
  /\ calls' = Append(calls, [index |-> idx, element |-> input.elems[idx],
                             err |-> Nil])
  /\ found' = (found \/ predicate[input.elems[idx]])
  /\ IF idx = len(input)
       THEN pc' = "done" /\ idx' = idx
       ELSE pc' = "loop" /\ idx' = idx + 1
  /\ ptr' = ptr
  /\ UNCHANGED <<fn, input, predicate, passed, searchFrame, value>>
  /\ UNCHANGED procs

AnyStep ==
  /\ SearchStep("Any", predicate[input.elems[idx]], TRUE, FALSE)
  /\ ptr' = ptr
  /\ UNCHANGED procs

CallAll ==
  /\ pc = "idle"
  /\ \E in \in Slices, p \in Predicates :
       /\ SearchCallFrame("All", in, p)
       /\ found' = TRUE
  /\ UNCHANGED procs

AllStep ==
  /\ SearchStep("All", ~predicate[input.elems[idx]], FALSE, TRUE)
  /\ ptr' = ptr
  /\ UNCHANGED procs

\* The zero value of the element type T.
ZeroT == 0

\* Find is called on slices that may hold the zero value.
ElemZ == Elem \cup {ZeroT}
SlicesZ == {NilSlice} \cup {MkSlice(q) : q \in SeqsUpTo(ElemZ, MaxLen)}
PredicatesZ == [ElemZ -> BOOLEAN]

CallFind ==
  /\ pc = "idle"
  /\ \E in \in SlicesZ, p \in PredicatesZ :
       /\ SearchCallFrame("Find", in, p)
       /\ found' = FALSE
  /\ UNCHANGED procs

\* Mutant: the address of a copy of the element, outside the slice.
FindAddrOfCopy(i) == i + MaxLen + 1

\* &input[i]: a pointer is the position of its element in the caller's
\* slice; 0 is the nil pointer.
FindAddr(i) == i

\* Mutant: Find scans the whole slice and reports the last match.
FindStepLast ==
  /\ pc = "loop"
  /\ fn = "Find"
  /\ calls' = Append(calls, [index |-> idx, element |-> input.elems[idx],
                             err |-> Nil])
  /\ found' = (found \/ predicate[input.elems[idx]])
  /\ ptr' = IF predicate[input.elems[idx]] THEN FindAddr(idx) ELSE ptr
  /\ IF idx = len(input)
       THEN pc' = "done" /\ idx' = idx
       ELSE pc' = "loop" /\ idx' = idx + 1
  /\ UNCHANGED <<fn, input, predicate, passed, searchFrame, value>>
  /\ UNCHANGED procs

FindStep ==
  /\ SearchStep("Find", predicate[input.elems[idx]], TRUE, FALSE)
  /\ ptr' = IF predicate[input.elems[idx]] THEN FindAddr(idx) ELSE 0
  /\ UNCHANGED procs

\* The caller assigns through the pointer Find returned: *ptr = v.  A
\* pointer into the slice writes the slice's element.
FindWrite ==
  /\ pc = "done"
  /\ fn = "Find"
  /\ found
  /\ fn' = "FindWrite"
  /\ \E v \in ElemZ :
       /\ value' = v
       /\ input' = IF ptr \in 1..len(input)
                     THEN [input EXCEPT !.elems[ptr] = v]
                     ELSE input
  /\ UNCHANGED <<pc, predicate, idx, calls, found, ptr, passed, searchFrame>>
  /\ UNCHANGED procs

\* The range loop of Contains from position i on.
RECURSIVE ContainsLoop(_, _, _)
ContainsLoop(slice, v, i) ==
  IF i > len(slice) THEN FALSE
  ELSE IF slice.elems[i] = v THEN TRUE
  ELSE ContainsLoop(slice, v, i + 1)

Contains(slice, v) == ContainsLoop(slice, v, 1)

CallContains ==
  /\ pc = "idle"
  /\ \E s \in Slices, v \in Elem :
       /\ fn' = "Contains"
       /\ input' = s
       /\ value' = v
       /\ passed' = <<s>>
       /\ found' = Contains(s, v)
  /\ pc' = "done"
  /\ UNCHANGED <<predicate, idx, calls, ptr, searchFrame>>
  /\ UNCHANGED procs

(***************************************************************************)
(* Concurrent callers.  Several goroutines call Map, Filter, Reduce,       *)
(* Unique, ReversedCopy or Reverse on one shared slice; a step is one      *)
(* iteration of one caller's loop.  Each caller's result, accumulator and  *)
(* seen map are its own local variables.                                   *)
(***************************************************************************)

MaxConcLen == 2

\* The slices the callers share.
ConcSlices ==
  {NilSlice} \cup {MkSlice(q) : q \in SeqsUpTo({e \in Elem : e <= 2}, MaxConcLen)}

ConcFns == {"Map", "Filter", "Reduce", "Unique", "ReversedCopy", "Reverse"}

\* The callbacks the callers pass.
ConcMapper == [x \in Elem |-> IF x = 1 THEN 10 ELSE 20]
ConcPredicate == [x \in Elem |-> x # 2]

\* The variables of a single call, which the concurrent callers do not use.
seqVars == <<pc, fn, input2, idx, result, accumulator, err, calls, extVars,
             searchVars>>

InitConc ==
  /\ input \in ConcSlices
  /\ passed = <<input>>
  /\ mapFunc = ConcMapper
  /\ predicate = ConcPredicate
  /\ redKind = "shift"
  /\ initial = 1
  /\ procs = [p \in Callers |-> IdleLocal]
  /\ pc = "idle"
  /\ fn = "none"
  /\ input2 = NilSlice
  /\ idx = 0
  /\ result = NilSlice
  /\ accumulator = 0
  /\ err = Nil
  /\ calls = <<>>
  /\ size = 0
  /\ chunks = NilSlice
  /\ classifier = DefaultMapper
  /\ inputMap = NilMap
  /\ groups = NilMap
  /\ value = 1
  /\ found = FALSE
  /\ ptr = 0

\* Mutant: seen and the accumulator are package-level variables that all
\* callers share.
SetLocalShared(ps, p, l) ==
  [q \in DOMAIN ps |->
     IF q = p THEN l ELSE [ps[q] EXCEPT !.seen = l.seen, !.acc = l.acc]]

\* A caller's locals are declared inside the function it runs: an
\* assignment to them changes that caller's variables only.
SetLocal(ps, p, l) == [ps EXCEPT ![p] = l]

\* One iteration of Filter's loop.
FilterIter(res, v, p) == IF p[v] THEN SliceAppend(res, v) ELSE res

\* One iteration of Unique's loop on the locals l.
UniqueIter(l, item) ==
  IF item \notin l.seen
    THEN [l EXCEPT !.seen = l.seen \cup {item}, !.res = SliceAppend(l.res, item)]
    ELSE l

\* result[length-1-i] = v, with i the position (from 1) of v.
ReversedCopyIter(res, length, i, v) == [res EXCEPT !.elems[length + 1 - i] = v]

\* slice[i], slice[j] = slice[j], slice[i], with i a position from 1.
ReverseIter(slice, i) ==
  LET j == len(slice) + 1 - i IN
    [slice EXCEPT !.elems[i] = slice.elems[j], !.elems[j] = slice.elems[i]]

\* The locals of a caller after the entry of f on slice s, before the loop.
ConcEntry(f, s) ==
  LET l == [IdleLocal EXCEPT !.fn = f, !.pc = "loop", !.idx = 1,
                             !.res = EmptySlice]
      zeros(z) == MkSlice([i \in 1..len(s) |-> z])
  IN IF f = "Map"
       THEN IF s.isNil THEN [l EXCEPT !.pc = "done", !.res = NilSlice]
            ELSE IF len(s) = 0 THEN [l EXCEPT !.pc = "done"]
            ELSE [l EXCEPT !.res = zeros(ZeroU)]
     ELSE IF f = "Reduce"
       THEN [l EXCEPT !.acc = initial,
                      !.pc = IF len(s) = 0 THEN "done" ELSE "loop"]
     ELSE IF f = "Reverse"
       THEN [l EXCEPT !.res = NilSlice,
                      !.pc = IF len(s) < 2 THEN "done" ELSE "loop"]
     ELSE IF len(s) = 0 THEN [l EXCEPT !.pc = "done"]
     ELSE IF f = "ReversedCopy" THEN [l EXCEPT !.res = zeros(ZeroT)]
     ELSE l

\* The locals of a caller after one iteration of its loop on slice s.
ConcIter(l, s) ==
  LET item == s.elems[l.idx]
      n == IF l.fn = "Reverse" THEN len(s) \div 2 ELSE len(s)
      body ==
        IF l.fn = "Map"
          THEN [l EXCEPT !.res = MapIter(l.res, l.idx, mapFunc[item])]
        ELSE IF l.fn = "Filter"
          THEN [l EXCEPT !.res = FilterIter(l.res, item, predicate)]
        ELSE IF l.fn = "Reduce"
          THEN [l EXCEPT !.acc = ReduceIter(redKind, l.acc, item)]
        ELSE IF l.fn = "Unique" THEN UniqueIter(l, item)
        ELSE IF l.fn = "ReversedCopy"
          THEN [l EXCEPT !.res = ReversedCopyIter(l.res, len(s), l.idx, item)]
        ELSE l
  IN IF l.idx = n THEN [body EXCEPT !.pc = "done"]
     ELSE [body EXCEPT !.idx = l.idx + 1]

\* Another caller is inside its loop.
Overlaps(p) == \E q \in Callers \ {p} : procs[q].pc = "loop"

\* A caller calls one of the functions on the shared slice.  At most one
\* caller runs Reverse.
ConcCall ==
  /\ \E p \in Callers, f \in ConcFns :
       /\ procs[p].pc = "idle"
       /\ f = "Reverse" => \A q \in Callers : procs[q].fn # "Reverse"
       /\ procs' = SetLocal(procs, p,
                     [ConcEntry(f, input) EXCEPT !.ov = Overlaps(p)])
  /\ UNCHANGED <<input, passed, cbVars, seqVars>>

\* One caller runs one iteration of its loop; Reverse writes the shared
\* slice.
ConcStep ==
  /\ \E p \in Callers :
       /\ procs[p].pc = "loop"
       /\ procs' = SetLocal(procs, p,
                     [ConcIter(procs[p], input) EXCEPT
                        !.ov = procs[p].ov \/ Overlaps(p)])
       /\ input' = IF procs[p].fn = "Reverse"
                     THEN ReverseIter(input, procs[p].idx)
                     ELSE input
  /\ UNCHANGED <<passed, cbVars, seqVars>>

NextConc ==
  \/ ConcCall
  \/ ConcStep

SpecConc == InitConc /\ [][NextConc]_vars

Next ==
  \/ CallMapErr
  \/ MapErrStep
  \/ CallFilterErr
  \/ FilterErrStep
  \/ CallReduceErr
  \/ ReduceErrStep
  \/ CallUnique
  \/ CallIntersection
  \/ CallUnion
  \/ CallDifference
  \/ CallMap
  \/ MapStep
  \/ CallFilter
  \/ CallReduce
  \/ ReduceStep
  \/ CallChunk
  \/ FlattenChunks
  \/ ChunkWrite
  \/ CallFlatten
  \/ CallGroupBy
  \/ CallReversedCopy
  \/ CallReverse
  \/ CallKeys
  \/ CallValues
  \/ CallMapToSlice
  \/ CallAny
  \/ AnyStep
  \/ CallAll
  \/ AllStep
  \/ CallFind
  \/ FindStep
  \/ FindWrite
  \/ CallContains

Spec == Init /\ [][Next]_vars

(***************************************************************************)
(* Properties of the error-propagating family.                             *)
(***************************************************************************)

ErrFns == {"MapErr", "FilterErr", "ReduceErr"}

\* Some callback invocation of the current call returned a non-nil error.
HasErr == \E k \in 1..Len(calls) : calls[k].err # Nil

\* The index of the first invocation that returned a non-nil error.
FirstErrIndex ==
  CHOOSE k \in 1..Len(calls) :
    calls[k].err # Nil /\ \A j \in 1..(k - 1) : calls[j].err = Nil

\* The left fold of seq from init, defined on the sequence itself.
RECURSIVE LeftFold(_, _, _)
LeftFold(seq, init, kind) ==
  IF Len(seq) = 0 THEN init
  ELSE reducer(kind, LeftFold(SubSeq(seq, 1, Len(seq) - 1), init, kind), seq[Len(seq)])

\* C1: when mapFunc first fails at index k, MapErr returns exactly the mapped
\* values of the elements before k, in order, as a non-nil slice (empty when
\* k is the first index), together with the error mapFunc returned.
C1_MapErrPartialResult ==
  (pc = "done" /\ fn = "MapErr" /\ HasErr) =>
    LET k == FirstErrIndex IN
      /\ result = MkSlice([j \in 1..(k - 1) |-> mapFunc[input.elems[j]]])
      /\ err = calls[k].err

C1_Witness ==
  /\ pc = "done" /\ fn = "MapErr" /\ HasErr
  /\ FirstErrIndex = 3
  /\ len(result) = 2

\* C2: when the reducer first fails at index k, ReduceErr returns the left
\* fold of the elements before k from initial (initial itself when k is the
\* first index), together with the error the reducer returned.
C2_ReduceErrPartialAccumulator ==
  (pc = "done" /\ fn = "ReduceErr" /\ HasErr) =>
    LET k == FirstErrIndex IN
      /\ accumulator = LeftFold(SubSeq(input.elems, 1, k - 1), initial, redKind)
      /\ err = calls[k].err

C2_Witness ==
  /\ pc = "done" /\ fn = "ReduceErr" /\ HasErr
  /\ FirstErrIndex = 3
  /\ accumulator # initial
  /\ accumulator # 0

\* C3: when the predicate first fails at index k, FilterErr returns exactly
\* the elements before k for which the predicate returned true, in their
\* original order, as a non-nil slice, together with the error.
C3_FilterErrPartialResult ==
  (pc = "done" /\ fn = "FilterErr" /\ HasErr) =>
    LET k == FirstErrIndex IN
      /\ result = MkSlice(SelectSeq(SubSeq(input.elems, 1, k - 1),
                                    LAMBDA v : predicate[v]))
      /\ err = calls[k].err

C3_Witness ==
  /\ pc = "done" /\ fn = "FilterErr" /\ HasErr
  /\ FirstErrIndex = 3
  /\ len(result) = 1
  /\ predicate[input.elems[3]]

\* The callback was invoked once on each of the first Len(calls) elements,
\* in index order, and only the last invocation may have failed.
CallsInOrder ==
  /\ Len(calls) <= len(input)
  /\ \A j \in 1..Len(calls) :
       /\ calls[j].index = j
       /\ calls[j].element = input.elems[j]
  /\ \A j \in 1..(Len(calls) - 1) : calls[j].err = Nil
  /\ HasErr => (pc = "done" /\ err = calls[Len(calls)].err)

\* C4: in MapErr, FilterErr and ReduceErr the callback is invoked once per
\* element in index order up to and including the first failing element,
\* and never again after a failure.
C4_FailFastOrder ==
  /\ [](fn \in ErrFns => CallsInOrder)
  /\ [][HasErr => calls' = calls]_vars

C4_Witness ==
  /\ pc = "done" /\ fn \in ErrFns /\ HasErr
  /\ Len(calls) = 2
  /\ len(input) = 3

\* C5: on nil or empty input MapErr and FilterErr return a non-nil empty
\* slice and ReduceErr returns initial, each with a nil error and without
\* invoking the callback.
C5_EmptyInput ==
  (pc = "done" /\ fn \in ErrFns /\ len(input) = 0) =>
    /\ err = Nil
    /\ calls = <<>>
    /\ fn \in {"MapErr", "FilterErr"} => result = EmptySlice
    /\ fn = "ReduceErr" => accumulator = initial

C5_Witness ==
  /\ pc = "done" /\ fn = "MapErr" /\ input.isNil /\ calls = <<>>

\* C6: when no callback invocation fails, MapErr, FilterErr and ReduceErr
\* return a nil error and exactly what Map, Filter and Reduce return for the
\* same input and the same callback.
C6_SuccessEquivalence ==
  (pc = "done" /\ fn \in ErrFns /\ ~HasErr) =>
    /\ err = Nil
    /\ fn = "MapErr" => result = Map(input, mapFunc)
    /\ fn = "FilterErr" => result = Filter(input, predicate)
    /\ fn = "ReduceErr" => accumulator = Reduce(input, initial, redKind)

(***************************************************************************)
(* Properties of the set-algebra family.                                   *)
(***************************************************************************)

\* No value occurs twice in s.
NoDup(s) == \A i, j \in 1..len(s) : s.elems[i] = s.elems[j] => i = j

\* The index at which v first appears in src.
FirstIdx(src, v) ==
  CHOOSE i \in 1..len(src) :
    src.elems[i] = v /\ \A j \in 1..(i - 1) : src.elems[j] # v

\* The elements of res are ordered by their first appearance in src.
InFirstAppearanceOrder(res, src) ==
  \A i, j \in 1..len(res) :
    i < j => FirstIdx(src, res.elems[i]) < FirstIdx(src, res.elems[j])

\* C7: Unique(s) holds every distinct value of s once and nothing else, in
\* the order of each value's first appearance in s.
C7_UniqueFirstAppearance ==
  (pc = "done" /\ fn = "Unique") =>
    /\ KeySet(result) = KeySet(input)
    /\ NoDup(result)
    /\ InFirstAppearanceOrder(result, input)

C7_Witness ==
  /\ pc = "done" /\ fn = "Unique"
  /\ len(input) = 3
  /\ input.elems[1] = input.elems[3]
  /\ result.elems = <<2, 1>>

\* C8: Intersection(a, b) returns the distinct values that occur in both a
\* and b, each once, in the order of their first appearance in a, and is
\* empty when either input is empty or nil.
C8_IntersectionFirstAppearance ==
  (pc = "done" /\ fn = "Intersection") =>
    /\ KeySet(result) = KeySet(input) \cap KeySet(input2)
    /\ NoDup(result)
    /\ InFirstAppearanceOrder(result, input)
    /\ (len(input) = 0 \/ len(input2) = 0) => len(result) = 0

\* C9: Difference(a, b) returns the distinct values of a that do not occur
\* in b, each once, in the order of their first appearance in a; it equals
\* Unique(a) when b is empty or nil and is empty when a is.
C9_DifferenceFirstAppearance ==
  (pc = "done" /\ fn = "Difference") =>
    /\ KeySet(result) = KeySet(input) \ KeySet(input2)
    /\ NoDup(result)
    /\ InFirstAppearanceOrder(result, input)
    /\ len(input2) = 0 => result = Unique(input)
    /\ len(input) = 0 => len(result) = 0

\* C10: Union(a, b) holds every value of a or b once and no other value, so
\* its length is the number of distinct values of both; with one input empty
\* or nil it holds the distinct values of the other, and with both it is the
\* non-nil empty slice.
C10_UnionContents ==
  (pc = "done" /\ fn = "Union") =>
    /\ KeySet(result) = KeySet(input) \cup KeySet(input2)
    /\ NoDup(result)
    /\ len(result) = Cardinality(KeySet(input) \cup KeySet(input2))
    /\ len(input) = 0 => KeySet(result) = KeySet(input2)
    /\ len(input2) = 0 => KeySet(result) = KeySet(input)
    /\ (len(input) = 0 /\ len(input2) = 0) => result = EmptySlice

C10_Witness ==
  /\ pc = "done" /\ fn = "Union"
  /\ input.elems = <<1, 2, 1>>
  /\ input2.elems = <<2, 3>>
  /\ len(result) = 3

(***************************************************************************)
(* Properties of Union's order, Chunk, Flatten, GroupBy, Keys, the         *)
(* transform family, and the frame of every call.                          *)
(***************************************************************************)

\* The elements of s are in strictly ascending order.
Ascending(s) == \A i, j \in 1..len(s) : i < j => s.elems[i] < s.elems[j]

\* The number of occurrences of v in seq.
Count(v, seq) == Cardinality({i \in DOMAIN seq : seq[i] = v})

\* C11: Union(a, b) returns its elements in ascending sorted order, so the
\* result is determined by the set of input values alone.
C11_UnionSorted ==
  (pc = "done" /\ fn = "Union") => Ascending(result)

C13_ChunkFlattenRoundTrip ==
  fn = "FlattenChunks" =>
    /\ size >= 1
    /\ len(result) = len(input)
    /\ result.elems = input.elems

C13_Witness ==
  /\ fn = "FlattenChunks"
  /\ len(input) = 3
  /\ size = 2
  /\ len(chunks) = 2

\* C14: GroupBy stores every element occurrence of s in the group of its
\* key and in no other group, the groups together hold the multiset of s,
\* every group keeps the order of s, and nil or empty input gives an empty
\* non-nil map.
C14_GroupByPartition ==
  (pc = "done" /\ fn = "GroupBy") =>
    /\ ~groups.isNil
    /\ DOMAIN groups.m = {classifier[input.elems[i]] : i \in 1..len(input)}
    /\ \A k \in DOMAIN groups.m :
         /\ groups.m[k].elems =
              SelectSeq(input.elems, LAMBDA v : classifier[v] = k)
         /\ \A v \in Elem :
              Count(v, groups.m[k].elems) =
                IF classifier[v] = k THEN Count(v, input.elems) ELSE 0
    /\ len(input) = 0 => groups = EmptyMap

C14_Witness ==
  /\ pc = "done" /\ fn = "GroupBy"
  /\ len(input) = 3
  /\ Cardinality(DOMAIN groups.m) = 2
  /\ \E k \in DOMAIN groups.m : groups.m[k].elems = <<2, 1>>

\* The functions of C15 that take one slice.
OneSliceFns == {"Map", "Filter", "Unique", "ReversedCopy"}

\* C15: Map, Filter, Unique, Intersection, Union, Difference, Flatten,
\* Chunk (size >= 1), ReversedCopy, Keys, Values and MapToSlice return a
\* non-nil empty result when their input is nil.
C15_AbsentInputNormalized ==
  pc = "done" =>
    /\ (fn \in OneSliceFns /\ input.isNil) => result = EmptySlice
    /\ (fn \in {"Intersection", "Union", "Difference"}
          /\ input.isNil /\ input2.isNil) => result = EmptySlice
    /\ (fn = "Flatten" /\ chunks.isNil) => result = EmptySlice
    /\ (fn = "Chunk" /\ input.isNil) => chunks = EmptySlice
    /\ (fn \in {"Keys", "Values", "MapToSlice"} /\ inputMap.isNil) =>
         result = EmptySlice

\* C16: Keys(m) returns every key of m once, in ascending order, and a
\* non-nil empty slice for an empty or nil map.
C16_KeysSorted ==
  (pc = "done" /\ fn = "Keys") =>
    /\ KeySet(result) = DOMAIN inputMap.m
    /\ len(result) = Cardinality(DOMAIN inputMap.m)
    /\ Ascending(result)
    /\ Cardinality(DOMAIN inputMap.m) = 0 => result = EmptySlice

\* The argument containers of the current call as they are now.
ArgsNow ==
  IF fn \in {"Unique", "Intersection", "Union", "Difference"}
    THEN <<input, input2>>
  ELSE IF fn = "Flatten" THEN <<chunks>>
  ELSE IF fn \in {"Keys", "Values", "MapToSlice"} THEN <<inputMap>>
  ELSE <<input>>

\* The caller's own writes, after the call, through what the call returned.
CallerWrites == {"FindWrite", "ChunkWrite"}

\* C17: during and after a call of any function but Reverse, every slice
\* and map that was passed has the length and elements it had when the call
\* was made, also when the call ends with an error.
C17_InputImmutable ==
  /\ [](fn \notin ({"none", "Reverse"} \cup CallerWrites) => ArgsNow = passed)
  /\ [][(pc # "idle" /\ fn # "Reverse" /\ fn' \notin CallerWrites) =>
          (input' = input /\ input2' = input2 /\ chunks' = chunks
             /\ inputMap' = inputMap)]_vars

C17_Witness ==
  /\ pc = "done" /\ fn = "MapErr" /\ err # Nil
  /\ len(input) = 3
  /\ passed = <<input>>

\* C18: Map(s, f) has the length of s, its element at every index i is
\* f(s[i]), and f is applied once to each element.
C18_MapPointwise ==
  (pc = "done" /\ fn = "Map") =>
    /\ len(result) = len(input)
    /\ \A i \in 1..len(input) : result.elems[i] = mapFunc[input.elems[i]]
    /\ Len(calls) = len(input)
    /\ \A j \in 1..Len(calls) :
         calls[j].index = j /\ calls[j].element = input.elems[j]

C18_Witness ==
  /\ pc = "done" /\ fn = "Map"
  /\ len(input) = 3
  /\ result.elems = <<10, 20, 10>>

\* C19: Filter(s, p) is the subsequence of s, in the order of s, of exactly
\* the element occurrences for which p holds.
C19_FilterSubsequence ==
  (pc = "done" /\ fn = "Filter") =>
    /\ result.elems = SelectSeq(input.elems, LAMBDA v : predicate[v])
    /\ \A i \in 1..len(result) : predicate[result.elems[i]]
    /\ \A v \in Elem :
         Count(v, result.elems) = IF predicate[v] THEN Count(v, input.elems) ELSE 0

C19_Witness ==
  /\ pc = "done" /\ fn = "Filter"
  /\ len(input) = 3
  /\ result.elems = <<3, 1>>

\* C20: Reduce(s, initial, f) is the left fold of s from initial, f being
\* invoked on the elements in index order; for nil or empty s it returns
\* initial without invoking f, and for a one-element s it is f(initial, s[0]).
C20_ReduceLeftFold ==
  (pc = "done" /\ fn = "Reduce") =>
    /\ accumulator = LeftFold(input.elems, initial, redKind)
    /\ Len(calls) = len(input)
    /\ \A j \in 1..Len(calls) :
         calls[j].index = j /\ calls[j].element = input.elems[j]
    /\ len(input) = 0 => (accumulator = initial /\ calls = <<>>)
    /\ len(input) = 1 => accumulator = reducer(redKind, initial, input.elems[1])

C20_Witness ==
  /\ pc = "done" /\ fn = "Reduce"
  /\ redKind = "shift"
  /\ initial = 1
  /\ input.elems = <<1, 2, 3>>

(***************************************************************************)
(* Properties of the search family.                                        *)
(***************************************************************************)

\* The positions of s whose element satisfies p.
Matches(s, p) == {i \in 1..len(s) : p[s.elems[i]]}

\* The smallest position of s whose element satisfies p; 0 when none does.
FirstMatch(s, p) ==
  IF Matches(s, p) = {} THEN 0
  ELSE CHOOSE i \in Matches(s, p) : \A j \in Matches(s, p) : i <= j

\* The predicate was invoked on the first Len(calls) elements, once each and
\* in index order.
PredicateCallsInOrder ==
  /\ Len(calls) <= len(input)
  /\ \A j \in 1..Len(calls) :
       calls[j].index = j /\ calls[j].element = input.elems[j]

\* C21: Any(s, p) is true iff some element satisfies p, All(s, p) is true
\* iff no element fails p (false and true on nil or empty s), and no
\* invocation of p follows a satisfying element in Any or a failing element
\* in All.
C21_AnyAllShortCircuit ==
  /\ fn \in {"Any", "All"} => PredicateCallsInOrder
  /\ fn = "Any" =>
       /\ \A j \in 1..(Len(calls) - 1) : ~predicate[calls[j].element]
       /\ pc = "done" =>
            /\ found = (Matches(input, predicate) # {})
            /\ ~found => Len(calls) = len(input)
  /\ fn = "All" =>
       /\ \A j \in 1..(Len(calls) - 1) : predicate[calls[j].element]
       /\ pc = "done" =>
            /\ found = (Matches(input, predicate) = 1..len(input))
            /\ found => Len(calls) = len(input)

C21_Witness ==
  /\ pc = "done" /\ fn = "Any"
  /\ found
  /\ len(input) = 3
  /\ Len(calls) = 2
  /\ predicate[input.elems[3]]

\* C22: Find(s, p) returns found = true and a pointer to the element at the
\* smallest index where p holds, the zero value included; found = false and
\* the nil pointer when no element satisfies p or s is nil or empty; and p
\* is not invoked after the first match.
C22_FindFirstMatch ==
  fn = "Find" =>
    /\ PredicateCallsInOrder
    /\ \A j \in 1..(Len(calls) - 1) : ~predicate[calls[j].element]
    /\ pc = "done" =>
         LET k == FirstMatch(input, predicate) IN
           /\ found = (k # 0)
           /\ found => (ptr = k /\ predicate[input.elems[ptr]]
                          /\ Len(calls) = k)
           /\ ~found => (ptr = 0 /\ Len(calls) = len(input))

C22_Witness ==
  /\ pc = "done" /\ fn = "Find"
  /\ found
  /\ ptr = 2
  /\ input.elems[ptr] = ZeroT
  /\ len(input) = 3
  /\ predicate[input.elems[3]]

(***************************************************************************)
(* Algebraic laws of the set operations.                                   *)
(***************************************************************************)

\* C23: for all a and b, Intersection(a, b) and Intersection(b, a) hold the
\* same set of values, each value once.
C23_IntersectionCommutes ==
  (pc = "done" /\ fn = "Intersection") =>
    /\ NoDup(result)
    /\ \A r \in Intersection(input2, input) :
         KeySet(r) = KeySet(result) /\ NoDup(r)

C23_Witness ==
  /\ pc = "done" /\ fn = "Intersection"
  /\ len(input) = 3
  /\ len(input2) = 2
  /\ KeySet(input) # KeySet(input2)
  /\ len(result) = 2

\* C24: for all a and b, Union(a, Difference(b, a)) holds the same set of
\* values as Union(a, b).  In a state where Difference(b, a) has returned,
\* input is b, input2 is a and result is the difference.
C24_UnionOfDifference ==
  (pc = "done" /\ fn = "Difference") =>
    LET viaDifference == {KeySet(u) : u \in Union(input2, result)}
    IN  /\ viaDifference = {KeySet(w) : w \in Union(input2, input)}
        /\ Cardinality(viaDifference) = 1

C24_Witness ==
  /\ pc = "done" /\ fn = "Difference"
  /\ len(input) = 3
  /\ len(result) = 1
  /\ KeySet(input) \cap KeySet(input2) # {}
  /\ KeySet(input2) \ KeySet(input) # {}

\* C25: for every s, Unique(Unique(s)) is the same sequence as Unique(s).
C25_UniqueIdempotent ==
  (pc = "done" /\ fn = "Unique") => Unique(result) = result

C25_Witness ==
  /\ pc = "done" /\ fn = "Unique"
  /\ len(input) = 3
  /\ len(result) = 2

(***************************************************************************)
(* Writes to the caller's data: Reverse, and the caller's own writes       *)
(* through what Find and Chunk returned.                                   *)
(***************************************************************************)

\* C27: after Reverse on a slice of length n the element at every index i is
\* the element that was at n-1-i, the length is kept, a slice of fewer than
\* two elements (nil included) is left as it was, and no other function
\* writes to its input.
C27_ReverseInPlace ==
  /\ fn = "Reverse" =>
       LET old == passed[1]
           n == len(old)
       IN /\ input.isNil = old.isNil
          /\ len(input) = n
          /\ \A i \in 1..n : input.elems[i] = old.elems[n + 1 - i]
          /\ n < 2 => input = old
  /\ fn \notin ({"none", "Reverse"} \cup CallerWrites) => ArgsNow = passed

C27_Witness ==
  /\ pc = "done" /\ fn = "Reverse"
  /\ passed[1].elems = <<1, 2, 3>>
  /\ input.elems = <<3, 2, 1>>

ChunksAreViews ==
  LET n == len(input)
      k == len(chunks)
  IN /\ k = (n + size - 1) \div size
     /\ \A j \in 1..k :
          LET c == chunks.elems[j]
              end == IF j * size > n THEN n ELSE j * size
          IN /\ c.arr = "input"
             /\ c.off = (j - 1) * size
             /\ c.elems = SubSeq(input.elems, (j - 1) * size + 1, end)
             /\ Len(c.elems) >= 1
             /\ Len(c.elems) <= size
             /\ j < k => Len(c.elems) = size
     /\ \A j1, j2 \in 1..k :
          j1 < j2 =>
            chunks.elems[j1].off + Len(chunks.elems[j1].elems)
              <= chunks.elems[j2].off

\* C29: for size >= 1 the chunks of Chunk(s, size) are sub-slices of s on
\* disjoint index ranges that cover s in order, ceil(len(s)/size) of them,
\* all of size elements but the last, which has 1 to size; a write to
\* element i of chunk j changes s[j*size+i] and that element of chunk j,
\* and nothing else.
C29_ChunkSubViews ==
  /\ []((pc = "done" /\ fn = "Chunk") => (size >= 1 /\ ChunksAreViews))
  /\ [][fn' = "ChunkWrite" =>
          \E j \in 1..len(chunks), v \in Elem :
          \E i \in 1..len(chunks.elems[j]) :
            /\ input' = [input EXCEPT !.elems[(j - 1) * size + i] = v]
            /\ chunks' = [chunks EXCEPT !.elems[j].elems[i] = v]]_vars

C29_Witness ==
  /\ fn = "ChunkWrite"
  /\ size = 2
  /\ len(input) = 3
  /\ len(chunks) = 2
  /\ input.elems[3] # passed[1].elems[3]
  /\ chunks.elems[2].elems = <<input.elems[3]>>

(***************************************************************************)
(* The value a callback returns together with an error.                    *)
(***************************************************************************)

\* The invocations before the failing one, which is the last.
CallsBeforeError == SubSeq(calls, 1, Len(calls) - 1)

\* C30: when the callback returns (value, err) with a non-nil err, MapErr
\* does not append the value, FilterErr does not include the element even
\* when the returned flag is true, and ReduceErr returns the accumulator it
\* had before the call whatever accumulator came with the error.
C30_ValueWithErrorDiscarded ==
  (pc = "done" /\ fn \in ErrFns /\ HasErr) =>
    /\ calls[Len(calls)].err # Nil
    /\ fn = "MapErr" =>
         result.elems = [j \in 1..(Len(calls) - 1) |-> calls[j].ret]
    /\ fn = "FilterErr" =>
         result.elems =
           [j \in 1..Len(SelectSeq(CallsBeforeError, LAMBDA c : c.ret)) |->
              SelectSeq(CallsBeforeError, LAMBDA c : c.ret)[j].element]
    /\ fn = "ReduceErr" =>
         accumulator =
           IF Len(calls) = 1 THEN initial ELSE calls[Len(calls) - 1].ret

C30_Witness ==
  /\ pc = "done" /\ fn = "FilterErr" /\ HasErr
  /\ Len(calls) = 2
  /\ calls[1].ret
  /\ calls[2].ret
  /\ len(result) = 1

(***************************************************************************)
(* Concurrent callers (specification SpecConc).                            *)
(***************************************************************************)

\* What the call of f on slice s returns when it runs alone.
Alone(f, s) ==
  IF f = "Map" THEN Map(s, mapFunc)
  ELSE IF f = "Filter" THEN Filter(s, predicate)
  ELSE IF f = "Unique" THEN Unique(s)
  ELSE ReversedCopy(s)

====
